---- MODULE Spec2Model ----
(***************************************************************************)
(* Model of the Stable Diffusion LoRA training pipeline                    *)
(* (invoke_training/pipelines/stable_diffusion/lora/train.py).             *)
(*                                                                         *)
(* train() is modelled as a state machine whose program counter `pc`       *)
(* walks through the set-up phases (model loading, text-encoder cache,     *)
(* VAE cache, trainable set-up, option asserts, schedule computation) and  *)
(* then through the epoch / batch loop.  One action models one phase or    *)
(* one whole iteration of the inner loop body.                             *)
(***************************************************************************)
EXTENDS Integers, Sequences, FiniteSets, TLC

\* ---------------------------------------------------------------------------
\* Bounds of the explored input space.
\* ---------------------------------------------------------------------------
MaxBatches == 4
MaxAccum == 3
MaxTrainSteps == 5
MaxTrainEpochs == 2
MaxEveryNSteps == 3
MaxEveryNEpochs == 2
MaxPrompts == 1
CfgMaxBatches == 2
CfgMaxEvery == 1
MaxCheckpoints == 2
MaxCallbacks == 2
CkptMaxTrainSteps == 4
CkptMaxBatches == 2
MaxSnr == 4
MaxGamma == 3
NumWorkers == 2
DistIds == 2
DistMaxTrainSteps == 2
PreMaxIds == 3
PreMaxBatchSize == 2
PreMaxBuckets == 2
StepMaxBatches == 3
StepMaxAccum == 2
StepMaxTrainSteps == 3
StepMaxLoss == 2

\* Longest caption_templates list of a textual inversion config.
TiMaxTemplates == 1

\* ---------------------------------------------------------------------------
\* Python values.
\* ---------------------------------------------------------------------------
\* Optional[int]: None is the empty tuple, an int i is the 1-tuple <<i>>.
None == << >>

Some(i) == << i >>

OptInts(n) == {None} \cup {Some(i) : i \in 1..n}

\* Pairs of options with exactly one member set.
ExactlyOnePairs(ns, ne) ==
    {<<Some(i), None>> : i \in 1..ns} \cup {<<None, Some(i)>> : i \in 1..ne}

\* Pairs of options with any combination of set / unset members.
AnyPairs(ns, ne) == OptInts(ns) \X OptInts(ne)

\* sum([a is not None, b is not None])
NumSet(a, b) == (IF a # None THEN 1 ELSE 0) + (IF b # None THEN 1 ELSE 0)

\* math.ceil(a / b) for positive b.
Ceil(a, b) == (a + b - 1) \div b

CheckpointFormats == {"invoke_peft", "kohya"}

\* ---------------------------------------------------------------------------
\* State.
\* ---------------------------------------------------------------------------
VARIABLES
    config,                \* the SdLoraConfig passed to train()
    len_data_loader,       \* len(data_loader): batches per epoch
    pc,                    \* position of train()
    err,                   \* the exception train() died with, or "none"
    models_loaded,         \* load_models_sd() has returned
    text_encoder_cache_populated, \* cache_text_encoder_outputs() has run
    vae_cache_populated,   \* cache_vae_outputs() has run
    num_steps_per_epoch,
    num_train_steps,
    num_train_epochs,
    epoch,                 \* position of `for epoch in range(...)`
    data_batch_idx,        \* position of `enumerate(data_loader)`
    accumulate_step,       \* accelerator.step
    sync_gradients,        \* accelerator.sync_gradients
    global_step,
    completed_epochs,
    batches_processed,     \* number of train_forward() calls so far
    optimizer_updates,     \* number of optimizer steps actually applied
    saves,                 \* sequence of (epoch, step) tags passed to save_checkpoint
    validations,           \* sequence of (epoch, step) tags passed to validate
    checkpoints,           \* checkpoint files in the checkpoint directory, oldest first
    removed,               \* checkpoint files deleted by the tracker, in order
    callback_log,          \* on_save_checkpoint() calls received by the callbacks
    trainable_param_groups, \* the parameter groups handed to the optimizer
    log,                   \* the last record passed to accelerator.log(), or None
    batch_losses,          \* the loss train_forward() gives for each batch of the loader
    train_loss,            \* train_loss, in units of 1 / gradient_accumulation_steps
    pending_losses,        \* the losses of the batches since the last sync point
    loss_log,              \* the train_loss of the last log record, with its batches, or None
    step_effects,          \* clip_grad_norm_ calls, effective scheduler steps and zero_grads
    tf_input,              \* train_forward(): config, batch and sampled values
    tf_scheduler,          \* train_forward(): noise_scheduler.config.prediction_type
    tf_calls,              \* train_forward(): collaborators invoked, in order
    tf_result,             \* train_forward(): what the call produced, or None
    dist_config,           \* several workers: the options and the launch topology
    worker,                \* several workers: position and counters of each process
    cache_files,           \* several workers: the bundles in the cache directories
    cache_reads,           \* several workers: the cache lookups made so far
    active_writers,        \* several workers: side effects in progress
    side_effects,          \* several workers: side effects completed, in order
    pre_input,             \* precomputation job: cache kind, loader config, dataset
    pre_pc,                \* precomputation job: position
    pre_batches,           \* precomputation job: the batches of its data loader, or None
    pre_pos,               \* precomputation job: batches iterated so far
    pre_writes,            \* precomputation job: the ids passed to cache.save(), in order
    ti_input,              \* textual inversion data loader: the arguments of the call
    ti_result              \* textual inversion data loader: what the call produced, or None

vars == <<config, len_data_loader, pc, err, models_loaded,
          text_encoder_cache_populated, vae_cache_populated,
          num_steps_per_epoch, num_train_steps, num_train_epochs,
          epoch, data_batch_idx, accumulate_step, sync_gradients,
          global_step, completed_epochs, batches_processed, optimizer_updates,
          saves, validations, checkpoints, removed, callback_log,
          trainable_param_groups, log,
          batch_losses, train_loss, pending_losses, loss_log, step_effects,
          tf_input, tf_scheduler, tf_calls, tf_result,
          dist_config, worker, cache_files, cache_reads, active_writers,
          side_effects,
          pre_input, pre_pc, pre_batches, pre_pos, pre_writes,
          ti_input, ti_result>>

forwardVars == <<tf_input, tf_scheduler, tf_calls, tf_result>>

\* State of the other components of the module, untouched by train().
distVars == <<dist_config, worker, cache_files, cache_reads, active_writers,
              side_effects>>

precomputeVars == <<pre_input, pre_pc, pre_batches, pre_pos, pre_writes>>

tiLoaderVars == <<ti_input, ti_result>>

auxVars == <<forwardVars, distVars, precomputeVars, tiLoaderVars>>

\* train_forward() is not being observed.
ForwardIdle ==
    /\ tf_input = None
    /\ tf_scheduler = "epsilon"
    /\ tf_calls = << >>
    /\ tf_result = None

\* No run with several workers is being observed.
DistIdle ==
    /\ dist_config = None
    /\ worker = << >>
    /\ cache_files = {}
    /\ cache_reads = {}
    /\ active_writers = {}
    /\ side_effects = << >>

\* No precomputation job is being observed.
PrecomputeIdle ==
    /\ pre_input = None
    /\ pre_pc = "idle"
    /\ pre_batches = None
    /\ pre_pos = 0
    /\ pre_writes = << >>

\* build_textual_inversion_sd_dataloader() is not being observed.
TiLoaderIdle ==
    /\ ti_input = None
    /\ ti_result = None

setupVars == <<models_loaded, text_encoder_cache_populated, vae_cache_populated>>

scheduleVars == <<num_steps_per_epoch, num_train_steps, num_train_epochs>>

loopVars == <<epoch, data_batch_idx, accumulate_step, sync_gradients,
              global_step, completed_epochs, batches_processed,
              optimizer_updates, saves, validations, checkpoints, removed,
              callback_log, log>>

\* The loss accumulator and the per-batch side effects of the loop body.
stepVars == <<batch_losses, train_loss, pending_losses, loss_log, step_effects>>

\* The state of the single-process view of train().
trainVars == <<config, len_data_loader, pc, err, setupVars, scheduleVars,
               loopVars, trainable_param_groups, stepVars>>

MkConfig(mx, sv, vl, prompts, accum, cte, tte, cvae, flip, crop, fmt) ==
    [max_train_steps |-> mx[1], max_train_epochs |-> mx[2],
     save_every_n_steps |-> sv[1], save_every_n_epochs |-> sv[2],
     validate_every_n_steps |-> vl[1], validate_every_n_epochs |-> vl[2],
     validation_prompts |-> prompts,
     gradient_accumulation_steps |-> accum,
     cache_text_encoder_outputs |-> cte,
     train_text_encoder |-> tte,
     cache_vae_outputs |-> cvae,
     random_flip |-> flip,
     center_crop |-> crop,
     lora_checkpoint_format |-> fmt]

\* Valid configurations with the given stopping bounds and accumulation steps;
\* the cadences, the prompts and the caching flags vary.
ValidConfigs(bounds, accums) ==
    {MkConfig(mx, sv, vl, prompts, accum, cache, FALSE, cache, FALSE, TRUE, "kohya") :
        mx \in bounds,
        sv \in ExactlyOnePairs(MaxEveryNSteps, MaxEveryNEpochs),
        vl \in ExactlyOnePairs(MaxEveryNSteps, MaxEveryNEpochs),
        prompts \in 0..MaxPrompts,
        accum \in accums,
        cache \in BOOLEAN}

\* Valid configurations: the training-loop parameters vary.
LoopConfigs ==
    ValidConfigs(ExactlyOnePairs(MaxTrainSteps, MaxTrainEpochs), 1..MaxAccum)

\* The scenario max_train_steps=10, gradient_accumulation_steps=2 with 10
\* batches per epoch.
ScenarioInputs == ValidConfigs({<<Some(10), None>>}, {2}) \X {10}

LoopInputs == (LoopConfigs \X (1..MaxBatches)) \cup ScenarioInputs

\* All configurations, valid or not: the option flags vary.
AnyConfigs ==
    [max_train_steps : OptInts(CfgMaxEvery),
     max_train_epochs : OptInts(CfgMaxEvery),
     save_every_n_steps : OptInts(CfgMaxEvery),
     save_every_n_epochs : OptInts(CfgMaxEvery),
     validate_every_n_steps : OptInts(CfgMaxEvery),
     validate_every_n_epochs : OptInts(CfgMaxEvery),
     validation_prompts : 0..MaxPrompts,
     gradient_accumulation_steps : {1},
     cache_text_encoder_outputs : BOOLEAN,
     train_text_encoder : BOOLEAN,
     cache_vae_outputs : BOOLEAN,
     random_flip : BOOLEAN,
     center_crop : BOOLEAN,
     lora_checkpoint_format : CheckpointFormats \cup {"unsupported"}]

\* The options of SdLoraConfig left at their defaults: the U-Net is trained,
\* no learning rate override, no checkpoint limit, no callbacks.
DefaultOptions ==
    [max_grad_norm |-> None,
     train_unet |-> TRUE,
     unet_learning_rate |-> None,
     text_encoder_learning_rate |-> None,
     max_checkpoints |-> None,
     callbacks |-> None]

\* Configurations for the checkpoint and optimizer set-up: the trained
\* components, their learning rates, the checkpoint limit, the callbacks and
\* the checkpoint format vary.
CheckpointConfigs ==
    {MkConfig(mx, sv, <<None, Some(1)>>, 0, 1, FALSE, trained[2], FALSE, FALSE, TRUE, fmt)
        @@ [train_unet |-> trained[1],
            unet_learning_rate |-> lrs[1],
            text_encoder_learning_rate |-> lrs[2],
            max_checkpoints |-> limit,
            callbacks |-> cbs]
        @@ DefaultOptions :
        mx \in ExactlyOnePairs(CkptMaxTrainSteps, 1),
        sv \in ExactlyOnePairs(2, 1),
        trained \in {<<TRUE, FALSE>>, <<FALSE, TRUE>>, <<TRUE, TRUE>>},
        lrs \in {<<None, None>>, <<Some(1), Some(2)>>},
        limit \in OptInts(MaxCheckpoints),
        cbs \in {None} \cup {Some(n) : n \in 0..MaxCallbacks},
        fmt \in CheckpointFormats \cup {"unsupported"}}

\* train() has not started.
TrainState ==
    /\ pc = "load_models"
    /\ err = "none"
    /\ models_loaded = FALSE
    /\ text_encoder_cache_populated = FALSE
    /\ vae_cache_populated = FALSE
    /\ num_steps_per_epoch = 0
    /\ num_train_steps = 0
    /\ num_train_epochs = 0
    /\ epoch = 0
    /\ data_batch_idx = 0
    /\ accumulate_step = 0
    /\ sync_gradients = FALSE
    /\ global_step = 0
    /\ completed_epochs = 0
    /\ batches_processed = 0
    /\ optimizer_updates = 0
    /\ saves = << >>
    /\ validations = << >>
    /\ checkpoints = << >>
    /\ removed = << >>
    /\ callback_log = << >>
    /\ trainable_param_groups = << >>
    /\ log = None
    /\ train_loss = 0
    /\ pending_losses = << >>
    /\ loss_log = None
    /\ step_effects = [clip_grad_norm |-> 0, lr_scheduler_step |-> 0, zero_grad |-> 0]

InitState ==
    /\ TrainState
    /\ batch_losses = [i \in 1..len_data_loader |-> 1]
    /\ ForwardIdle
    /\ DistIdle
    /\ PrecomputeIdle
    /\ TiLoaderIdle

Init ==
    /\ \E input \in LoopInputs :
         /\ config = input[1] @@ DefaultOptions
         /\ len_data_loader = input[2]
    /\ InitState

InitConfig ==
    /\ \E c \in AnyConfigs : config = c @@ DefaultOptions
    /\ len_data_loader \in 1..CfgMaxBatches
    /\ InitState

InitCheckpoint ==
    /\ config \in CheckpointConfigs
    /\ len_data_loader \in 1..CkptMaxBatches
    /\ InitState

\* Valid configurations for the loop body: gradient clipping on or off,
\* accumulation groups, a save and a validation cadence of one epoch.
StepConfigs ==
    {[max_grad_norm |-> clip]
     @@ MkConfig(mx, <<None, Some(1)>>, <<None, Some(1)>>, 0, accum,
                 FALSE, FALSE, FALSE, FALSE, TRUE, "kohya")
     @@ DefaultOptions :
        clip \in OptInts(1),
        mx \in ExactlyOnePairs(StepMaxTrainSteps, 1),
        accum \in 1..StepMaxAccum}

InitStep ==
    /\ config \in StepConfigs
    /\ len_data_loader \in 1..StepMaxBatches
    /\ batch_losses \in [1..len_data_loader -> 1..StepMaxLoss]
    /\ TrainState
    /\ ForwardIdle
    /\ DistIdle
    /\ PrecomputeIdle
    /\ TiLoaderIdle

\* raise <exception>: train() stops where it is.
Raise(e) ==
    /\ pc' = "error"
    /\ err' = e


\* ---------------------------------------------------------------------------
\* Set-up phases of train().
\* ---------------------------------------------------------------------------
\* load_models_sd(): tokenizer, scheduler, text encoder, VAE and U-Net are loaded.
LoadModels ==
    /\ pc = "load_models"
    /\ models_loaded' = TRUE
    /\ pc' = "text_encoder_cache"
    /\ UNCHANGED <<config, len_data_loader, err, text_encoder_cache_populated,
                   vae_cache_populated, scheduleVars, loopVars>>
    /\ UNCHANGED <<trainable_param_groups, auxVars, stepVars>>

\* "Prepare text encoder output cache."
PrepareTextEncoderCache ==
    /\ pc = "text_encoder_cache"
    /\ IF config.cache_text_encoder_outputs
       THEN IF config.train_text_encoder
            THEN /\ Raise("cache_text_encoder_outputs_with_train_text_encoder")
                 /\ UNCHANGED text_encoder_cache_populated
            ELSE /\ text_encoder_cache_populated' = TRUE
                 /\ pc' = "vae_cache"
                 /\ UNCHANGED err
       ELSE /\ pc' = "vae_cache"
            /\ UNCHANGED <<err, text_encoder_cache_populated>>
    /\ UNCHANGED <<config, len_data_loader, models_loaded, vae_cache_populated,
                   scheduleVars, loopVars>>
    /\ UNCHANGED <<trainable_param_groups, auxVars, stepVars>>

\* "Prepare VAE output cache."
PrepareVaeCache ==
    /\ pc = "vae_cache"
    /\ IF config.cache_vae_outputs
       THEN IF config.random_flip
            THEN /\ Raise("cache_vae_outputs_with_random_flip")
                 /\ UNCHANGED vae_cache_populated
            ELSE IF ~config.center_crop
                 THEN /\ Raise("cache_vae_outputs_without_center_crop")
                      /\ UNCHANGED vae_cache_populated
                 ELSE /\ vae_cache_populated' = TRUE
                      /\ pc' = "build"
                      /\ UNCHANGED err
       ELSE /\ pc' = "build"
            /\ UNCHANGED <<err, vae_cache_populated>>
    /\ UNCHANGED <<config, len_data_loader, models_loaded,
                   text_encoder_cache_populated, scheduleVars, loopVars>>
    /\ UNCHANGED <<trainable_param_groups, auxVars, stepVars>>

\* inject_lora_layers(): trainable_param_groups.append(param_group)
InjectLoraLayers(groups, component, lr) ==
    Append(groups, [component |-> component, lr |-> lr])

\* Mutant: the text encoder adapter is injected before the U-Net adapter.
TrainableParamGroups_TextEncoderFirst ==
    LET first == IF config.train_text_encoder
                 THEN InjectLoraLayers(<< >>, "text_encoder", config.text_encoder_learning_rate)
                 ELSE << >>
    IN IF config.train_unet
       THEN InjectLoraLayers(first, "unet", config.unet_learning_rate)
       ELSE first

\* "Add LoRA layers to the model": the U-Net first, then the text encoder.
TrainableParamGroups ==
    LET first == IF config.train_unet
                 THEN InjectLoraLayers(<< >>, "unet", config.unet_learning_rate)
                 ELSE << >>
    IN IF config.train_text_encoder
       THEN InjectLoraLayers(first, "text_encoder", config.text_encoder_learning_rate)
       ELSE first

\* LoRA injection, optimizer and training data loader construction.
BuildTrainables ==
    /\ pc = "build"
    /\ trainable_param_groups' = TrainableParamGroups
    /\ pc' = "assert_options"
    /\ UNCHANGED <<config, len_data_loader, err, setupVars, scheduleVars, loopVars>>
    /\ UNCHANGED <<auxVars, stepVars>>

\* Mutant: the assert only rejects a pair with no member set.
OptionPairOk_AtLeastOne(a, b) == NumSet(a, b) >= 1

\* sum([a is not None, b is not None]) == 1
OptionPairOk(a, b) == NumSet(a, b) = 1

OptionPairsOk ==
    /\ OptionPairOk(config.max_train_steps, config.max_train_epochs)
    /\ OptionPairOk(config.save_every_n_steps, config.save_every_n_epochs)
    /\ OptionPairOk(config.validate_every_n_steps, config.validate_every_n_epochs)

\* The three asserts on the mutually exclusive option pairs.
AssertOptionPairs ==
    /\ pc = "assert_options"
    /\ IF OptionPairsOk
       THEN /\ pc' = "schedule"
            /\ UNCHANGED err
       ELSE Raise("option_pair_assertion")
    /\ UNCHANGED <<config, len_data_loader, setupVars, scheduleVars, loopVars>>
    /\ UNCHANGED <<trainable_param_groups, auxVars, stepVars>>

\* math.ceil(len(data_loader) / config.gradient_accumulation_steps)
NumStepsPerEpoch(len, accum) == Ceil(len, accum)

\* math.ceil(num_train_steps / num_steps_per_epoch)
NumTrainEpochs(steps, perEpoch) == Ceil(steps, perEpoch)

\* Schedule computation, LR scheduler, accelerator.prepare, checkpoint
\* tracker construction and loop variable initialisation.
ComputeSchedule ==
    /\ pc = "schedule"
    /\ IF config.max_train_steps = None /\ config.max_train_epochs = None
       THEN \* None * int
            /\ Raise("type_error")
            /\ UNCHANGED scheduleVars
       ELSE LET perEpoch == NumStepsPerEpoch(len_data_loader, config.gradient_accumulation_steps)
                \* config.max_train_steps or config.max_train_epochs * num_steps_per_epoch
                steps == IF config.max_train_steps # None /\ config.max_train_steps[1] # 0
                         THEN config.max_train_steps[1]
                         ELSE config.max_train_epochs[1] * perEpoch
            IN /\ num_steps_per_epoch' = perEpoch
               /\ num_train_steps' = steps
               /\ num_train_epochs' = NumTrainEpochs(steps, perEpoch)
               /\ pc' = "epoch"
               /\ UNCHANGED err
    /\ global_step' = 0
    /\ completed_epochs' = 0
    /\ epoch' = 0
    /\ UNCHANGED <<config, len_data_loader, setupVars, data_batch_idx,
                   accumulate_step, sync_gradients, batches_processed,
                   optimizer_updates, saves, validations, checkpoints, removed,
                   callback_log, log>>
    /\ UNCHANGED <<trainable_param_groups, auxVars, stepVars>>


\* ---------------------------------------------------------------------------
\* The training loop.
\* ---------------------------------------------------------------------------
\* Mutant: no forced synchronisation at the end of the data loader.
AccumulateSync_NoEndOfLoader(step, end_of_dataloader, accum) ==
    (step + 1) % accum = 0

\* accelerator.accumulate(): gradients are synchronised on the last batch of
\* the data loader and otherwise every gradient_accumulation_steps batches
\* ("an optimizer step is taken when the end of the dataloader is reached,
\* even if gradient_accumulation_steps hasn't been reached").
AccumulateSync(step, end_of_dataloader, accum) ==
    IF end_of_dataloader THEN TRUE ELSE (step + 1) % accum = 0

\* Mutant: the accumulation counter runs on across the end of the data loader.
AccumulateStep_NoReset(step, end_of_dataloader) == step + 1

\* accelerator.step after entering accelerator.accumulate().
AccumulateStep(step, end_of_dataloader) ==
    IF end_of_dataloader THEN 0 ELSE step + 1

\* Mutant: off-by-one comparison, the epoch is never counted as completed.
CompletedEpochs_OffByOne(ep, idx, len) == IF idx + 1 <= len THEN ep ELSE ep + 1

\* completed_epochs = epoch if (data_batch_idx + 1) < len(data_loader) else epoch + 1
CompletedEpochs(ep, idx, len) == IF idx + 1 < len THEN ep ELSE ep + 1

\* Mutant: the cadence is tested on the step count before its increment.
SaveStepDue_BeforeIncrement(step) ==
    /\ config.save_every_n_steps # None
    /\ (step - 1) % config.save_every_n_steps[1] = 0

\* config.save_every_n_steps is not None and global_step % config.save_every_n_steps == 0
SaveStepDue(step) ==
    /\ config.save_every_n_steps # None
    /\ step % config.save_every_n_steps[1] = 0

\* Mutant: the validation prompt list is not consulted.
ValidateStepDue_IgnoresPrompts(step) ==
    /\ config.validate_every_n_steps # None
    /\ step % config.validate_every_n_steps[1] = 0

\* config.validate_every_n_steps is not None
\* and global_step % config.validate_every_n_steps == 0
\* and len(config.validation_prompts) > 0
ValidateStepDue(step) ==
    /\ config.validate_every_n_steps # None
    /\ step % config.validate_every_n_steps[1] = 0
    /\ config.validation_prompts > 0

\* Mutant: the save after the inner loop does not look at the configuration.
SaveEpochDue_Unconditional(epochs) == TRUE

\* config.save_every_n_epochs is not None and completed_epochs % config.save_every_n_epochs == 0
SaveEpochDue(epochs) ==
    /\ config.save_every_n_epochs # None
    /\ epochs % config.save_every_n_epochs[1] = 0

\* config.validate_every_n_epochs is not None
\* and completed_epochs % config.validate_every_n_epochs == 0
\* and len(config.validation_prompts) > 0
ValidateEpochDue(epochs) ==
    /\ config.validate_every_n_epochs # None
    /\ epochs % config.validate_every_n_epochs[1] = 0
    /\ config.validation_prompts > 0

\* _save_sd_lora_checkpoint() raises on a format that is neither of the two.
SaveRaises == config.lora_checkpoint_format \notin CheckpointFormats

\* Mutant: strict comparison, one update too many.
BudgetReached_Strict(step, budget) == step > budget

\* if global_step >= num_train_steps: break
BudgetReached(step, budget) == step >= budget

Tag(epochs, step) == [epoch |-> epochs, step |-> step]

\* CheckpointTracker.prune(n): the number of checkpoints to delete so that at
\* most max_checkpoints - n remain (none when there is no limit).
PruneCount(ckpts, limit, n) ==
    IF limit = None
    THEN 0
    ELSE LET excess == Len(ckpts) - (limit[1] - n)
         IN IF excess <= 0 THEN 0
            ELSE IF excess > Len(ckpts) THEN Len(ckpts) ELSE excess

\* CheckpointTracker.get_path(epoch, step): prefix, tag and the extension
\* given to the tracker (".safetensors" for kohya, none otherwise).
GetPath(tag) ==
    [prefix |-> "checkpoint", epoch |-> tag.epoch, step |-> tag.step,
     extension |-> IF config.lora_checkpoint_format = "kohya" THEN ".safetensors" ELSE ""]

\* Mutant: prune() is asked to leave room for no new checkpoint.
SaveCheckpointPrune_NoRoom(ckpts) == PruneCount(ckpts, config.max_checkpoints, 0)

\* num_pruned = checkpoint_tracker.prune(1)
SaveCheckpointPrune(ckpts) == PruneCount(ckpts, config.max_checkpoints, 1)

\* Mutant: the model-kind tags of the two formats are exchanged.
ModelTypeOf_Exchanged(fmt) ==
    IF fmt = "invoke_peft" THEN "SD1_LORA_KOHYA" ELSE "SD1_LORA_PEFT"

\* model_type chosen by _save_sd_lora_checkpoint() for a supported format.
ModelTypeOf(fmt) ==
    IF fmt = "invoke_peft" THEN "SD1_LORA_PEFT" ELSE "SD1_LORA_KOHYA"

\* for cb in callbacks: cb.on_save_checkpoint(TrainingCheckpoint(...))
CallbackCalls(tag) ==
    IF config.callbacks = None
    THEN << >>
    ELSE [i \in 1..config.callbacks[1] |->
            [callback |-> i,
             file_path |-> GetPath(tag),
             model_type |-> ModelTypeOf(config.lora_checkpoint_format),
             epoch |-> tag.epoch,
             step |-> tag.step]]

\* The checkpoint directory after _save_sd_lora_checkpoint(): the oldest
\* files are pruned, then the new one is written unless the format is rejected.
CheckpointsAfterSave(tag) ==
    LET kept == SubSeq(checkpoints, SaveCheckpointPrune(checkpoints) + 1, Len(checkpoints))
    IN IF SaveRaises THEN kept ELSE Append(kept, tag)

\* The files deleted so far, after _save_sd_lora_checkpoint().
RemovedAfterSave ==
    removed \o SubSeq(checkpoints, 1, SaveCheckpointPrune(checkpoints))

\* lrs = lr_scheduler.get_last_lr(): one entry per parameter group, in order.
LastLrs(groups) == [i \in 1..Len(groups) |-> groups[i]]

\* The learning rates of the log record built at a sync point.
LogRecord(groups) ==
    LET lrs == LastLrs(groups)
    IN [lr_unet |-> IF config.train_unet THEN lrs[1] ELSE None,
        lr_text_encoder |-> IF config.train_text_encoder THEN lrs[Len(lrs)] ELSE None]

\* train_loss += avg_loss.item() / config.gradient_accumulation_steps, with
\* train_loss counted in units of 1 / gradient_accumulation_steps.
AccumulateTrainLoss(total, loss) == total + loss

\* Mutant: gradients are clipped on every batch.
ClipDue_EveryBatch(sync) == config.max_grad_norm # None

\* if accelerator.sync_gradients and config.max_grad_norm is not None
ClipDue(sync) == sync /\ config.max_grad_norm # None

\* clip_grad_norm_(), lr_scheduler.step() and optimizer.zero_grad() of one
\* batch: the prepared scheduler and optimizer act only when gradients sync.
StepEffects(effects, sync) ==
    [clip_grad_norm |-> effects.clip_grad_norm + (IF ClipDue(sync) THEN 1 ELSE 0),
     lr_scheduler_step |-> effects.lr_scheduler_step + (IF sync THEN 1 ELSE 0),
     zero_grad |-> effects.zero_grad + (IF sync THEN 1 ELSE 0)]

\* for epoch in range(first_epoch, num_train_epochs): train_loss = 0.0
BeginEpoch ==
    /\ pc = "epoch"
    /\ epoch < num_train_epochs
    /\ data_batch_idx' = 0
    /\ pc' = "batch"
    /\ UNCHANGED <<config, len_data_loader, err, setupVars, scheduleVars,
                   epoch, accumulate_step, sync_gradients, global_step,
                   completed_epochs, batches_processed, optimizer_updates,
                   saves, validations, checkpoints, removed, callback_log, log>>
    /\ train_loss' = 0
    /\ UNCHANGED <<trainable_param_groups, auxVars, batch_losses, pending_losses,
                   loss_log, step_effects>>

\* One iteration of `for data_batch_idx, data_batch in enumerate(data_loader)`.
TrainBatch ==
    /\ pc = "batch"
    /\ LET end_of_dataloader == data_batch_idx + 1 = len_data_loader
           sync == AccumulateSync(accumulate_step, end_of_dataloader,
                                  config.gradient_accumulation_steps)
           step == IF sync THEN global_step + 1 ELSE global_step
           epochs == IF sync
                     THEN CompletedEpochs(epoch, data_batch_idx, len_data_loader)
                     ELSE completed_epochs
           saveDue == sync /\ SaveStepDue(step)
           loss == batch_losses[data_batch_idx + 1]
           saveRaises == saveDue /\ SaveRaises
           validateDue == sync /\ ~saveRaises /\ ValidateStepDue(step)
       IN /\ batches_processed' = batches_processed + 1
          /\ accumulate_step' = AccumulateStep(accumulate_step, end_of_dataloader)
          /\ sync_gradients' = sync
          /\ optimizer_updates' = IF sync THEN optimizer_updates + 1 ELSE optimizer_updates
          /\ global_step' = step
          /\ completed_epochs' = epochs
          /\ log' = IF sync THEN LogRecord(trainable_param_groups) ELSE log
          /\ step_effects' = StepEffects(step_effects, sync)
          /\ loss_log' = IF sync
                         THEN [num |-> AccumulateTrainLoss(train_loss, loss),
                               den |-> config.gradient_accumulation_steps,
                               batches |-> Append(pending_losses, loss)]
                         ELSE loss_log
          /\ train_loss' = IF sync THEN 0 ELSE AccumulateTrainLoss(train_loss, loss)
          /\ pending_losses' = IF sync THEN << >> ELSE Append(pending_losses, loss)
          /\ saves' = IF saveDue /\ ~saveRaises
                      THEN Append(saves, Tag(epochs, step))
                      ELSE saves
          /\ checkpoints' = IF saveDue
                            THEN CheckpointsAfterSave(Tag(epochs, step))
                            ELSE checkpoints
          /\ removed' = IF saveDue THEN RemovedAfterSave ELSE removed
          /\ callback_log' = IF saveDue /\ ~saveRaises
                             THEN callback_log \o CallbackCalls(Tag(epochs, step))
                             ELSE callback_log
          /\ validations' = IF validateDue
                            THEN Append(validations, Tag(epochs, step))
                            ELSE validations
          /\ IF saveRaises
             THEN /\ Raise("unsupported_lora_checkpoint_format")
                  /\ UNCHANGED data_batch_idx
             ELSE /\ UNCHANGED err
                  /\ IF BudgetReached(step, num_train_steps) \/ end_of_dataloader
                     THEN /\ pc' = "epoch_end"
                          /\ UNCHANGED data_batch_idx
                     ELSE /\ pc' = "batch"
                          /\ data_batch_idx' = data_batch_idx + 1
    /\ UNCHANGED <<config, len_data_loader, setupVars, scheduleVars, epoch>>
    /\ UNCHANGED <<trainable_param_groups, auxVars, batch_losses>>

\* The code after the inner loop: epoch-cadence checkpoint and validation.
EndEpoch ==
    /\ pc = "epoch_end"
    /\ LET saveDue == SaveEpochDue(completed_epochs)
           saveRaises == saveDue /\ SaveRaises
           validateDue == ~saveRaises /\ ValidateEpochDue(completed_epochs)
       IN /\ saves' = IF saveDue /\ ~saveRaises
                      THEN Append(saves, Tag(completed_epochs, global_step))
                      ELSE saves
          /\ checkpoints' = IF saveDue
                            THEN CheckpointsAfterSave(Tag(completed_epochs, global_step))
                            ELSE checkpoints
          /\ removed' = IF saveDue THEN RemovedAfterSave ELSE removed
          /\ callback_log' = IF saveDue /\ ~saveRaises
                             THEN callback_log \o CallbackCalls(Tag(completed_epochs, global_step))
                             ELSE callback_log
          /\ validations' = IF validateDue
                            THEN Append(validations, Tag(completed_epochs, global_step))
                            ELSE validations
          /\ IF saveRaises
             THEN /\ Raise("unsupported_lora_checkpoint_format")
                  /\ UNCHANGED epoch
             ELSE /\ UNCHANGED err
                  /\ epoch' = epoch + 1
                  /\ pc' = "epoch"
    /\ UNCHANGED <<config, len_data_loader, setupVars, scheduleVars,
                   data_batch_idx, accumulate_step, sync_gradients, global_step,
                   completed_epochs, batches_processed, optimizer_updates, log>>
    /\ UNCHANGED <<trainable_param_groups, auxVars, stepVars>>

\* accelerator.end_training()
EndTraining ==
    /\ pc = "epoch"
    /\ epoch >= num_train_epochs
    /\ pc' = "done"
    /\ UNCHANGED <<config, len_data_loader, err, setupVars, scheduleVars, loopVars>>
    /\ UNCHANGED <<trainable_param_groups, auxVars, stepVars>>

Next ==
    \/ LoadModels
    \/ PrepareTextEncoderCache
    \/ PrepareVaeCache
    \/ BuildTrainables
    \/ AssertOptionPairs
    \/ ComputeSchedule
    \/ BeginEpoch
    \/ TrainBatch
    \/ EndEpoch
    \/ EndTraining

\* Valid configurations, training-loop parameters varied.
Spec == Init /\ [][Next]_vars

\* The same, with the loop scheduled fairly (train() runs to its end).
FairSpec == Init /\ [][Next]_vars /\ WF_vars(Next)

\* Valid and invalid configurations, option flags varied.
SpecConfig == InitConfig /\ [][Next]_vars

\* Trained components, checkpoint limit, callbacks and format varied.
SpecCheckpoint == InitCheckpoint /\ [][Next]_vars

\* Gradient clipping and per-batch losses varied.
SpecStep == InitStep /\ [][Next]_vars

TypeOK ==
    /\ pc \in {"load_models", "text_encoder_cache", "vae_cache", "build",
               "assert_options", "schedule", "epoch", "batch", "epoch_end",
               "done", "error"}
    /\ global_step \in Nat
    /\ completed_epochs \in Nat
    /\ (err = "none") <=> (pc # "error")


\* ---------------------------------------------------------------------------
\* train_forward(): the loss of one batch.
\* ---------------------------------------------------------------------------
PredictionTypes == {"epsilon", "v_prediction", "sample"}

\* The inputs of one call: config.prediction_type, the scheduler's own
\* prediction type, min_snr_gamma, the SNR of the sampled timestep and the
\* cached fields present in the batch.
ForwardInputs ==
    [prediction_type : {None} \cup {<<t>> : t \in PredictionTypes},
     scheduler_prediction_type : PredictionTypes,
     min_snr_gamma : OptInts(MaxGamma),
     snr : 1..MaxSnr,
     has_vae_output : BOOLEAN,
     has_text_encoder_output : BOOLEAN]

\* A tensor, as the expression that produced it.
Tensor(op, args) == [op |-> op, args |-> args]

\* latents: the cached vae_output, or the scaled sample of vae.encode(image).
Latents(in) ==
    IF in.has_vae_output
    THEN Tensor("vae_output", << >>)
    ELSE Tensor("mul_scaling_factor", <<Tensor("vae_encode_sample", <<Tensor("image", << >>)>>)>>)

\* noise = torch.randn_like(latents)
SampledNoise(in) == Tensor("randn_like", <<Latents(in)>>)

\* timesteps = torch.randint(0, num_train_timesteps, (batch_size,)).long()
SampledTimesteps(in) == Tensor("randint", <<Latents(in)>>)

\* Mutant: config.prediction_type is not registered with the scheduler.
RegisteredPredictionType_ConfigIgnored(config_type, scheduler_type) == scheduler_type

\* noise_scheduler.config.prediction_type after
\* `if config.prediction_type is not None: noise_scheduler.register_to_config(...)`.
RegisteredPredictionType(config_type, scheduler_type) ==
    IF config_type # None THEN config_type[1] ELSE scheduler_type

\* target: the noise, the scheduler's velocity, or None where the code raises.
ForwardTarget(type, in) ==
    IF type = "epsilon"
    THEN SampledNoise(in)
    ELSE IF type = "v_prediction"
         THEN Tensor("get_velocity", <<Latents(in), SampledNoise(in), SampledTimesteps(in)>>)
         ELSE None

Min(a, b) == IF a < b THEN a ELSE b

\* Mutant: the velocity objective is not floored to a weight of one.
MinSnrWeights_NoFloor(type, snr, gamma) ==
    IF gamma = None
    THEN None
    ELSE [num |-> Min(snr, gamma[1]), den |-> snr]

\* min_snr_weights as the fraction num / den:
\* torch.clamp(snr, max=min_snr_gamma) / snr, plus 1 for v_prediction.
MinSnrWeights(type, snr, gamma) ==
    IF gamma = None
    THEN None
    ELSE LET clamped == [num |-> Min(snr, gamma[1]), den |-> snr]
         IN IF type = "v_prediction"
            THEN [num |-> clamped.num + clamped.den, den |-> clamped.den]
            ELSE clamped

\* Mutant: the frozen encoders run whether or not their outputs are cached.
CallsBeforeDenoiser_AlwaysEncode(type, in) ==
    <<"vae.encode", "noise_scheduler.add_noise", "tokenize_captions", "text_encoder">>
    \o (IF in.prediction_type # None THEN <<"noise_scheduler.register_to_config">> ELSE << >>)
    \o (IF type = "v_prediction" THEN <<"noise_scheduler.get_velocity">> ELSE << >>)

\* The collaborators invoked up to and including the target selection.
CallsBeforeDenoiser(type, in) ==
    (IF in.has_vae_output THEN << >> ELSE <<"vae.encode">>)
    \o <<"noise_scheduler.add_noise">>
    \o (IF in.has_text_encoder_output THEN << >> ELSE <<"tokenize_captions", "text_encoder">>)
    \o (IF in.prediction_type # None THEN <<"noise_scheduler.register_to_config">> ELSE << >>)
    \o (IF type = "v_prediction" THEN <<"noise_scheduler.get_velocity">> ELSE << >>)

\* The collaborators invoked from the denoiser call on.
CallsFromDenoiser(in) ==
    <<"unet">> \o (IF in.min_snr_gamma # None THEN <<"compute_snr">> ELSE << >>)

\* The fields of data_batch accessed up to the target selection.
FieldsReadBeforeDenoiser(in) ==
    {"vae_output", "text_encoder_output"}
    \cup (IF in.has_vae_output THEN {} ELSE {"image"})
    \cup (IF in.has_text_encoder_output THEN {} ELSE {"caption"})

\* The fields of data_batch accessed after the denoiser call.
FieldsReadFromDenoiser(in) == {"loss_weight"}

\* The shape of the latents, cached or encoded.
LatentsShape == <<"batch", "channels", "height", "width">>

\* tensor.mean(dim=dims): the dimensions left over.
MeanOverDims(shape, dims) ==
    LET Kept(i) == i \notin dims
    IN [k \in 1..Cardinality({i \in 1..Len(shape) : Kept(i)}) |->
           shape[CHOOSE i \in 1..Len(shape) :
                     Kept(i) /\ Cardinality({j \in 1..i : Kept(j)}) = k]]

\* loss.mean(dim=list(range(1, len(loss.shape)))): one value per example.
PerExampleLossShape == MeanOverDims(LatentsShape, (1..Len(LatentsShape)) \ {1})

\* loss.mean(): the shape of the value train_forward() returns.
LossShape == MeanOverDims(PerExampleLossShape, 1..Len(PerExampleLossShape))

InitForward ==
    /\ config = None
    /\ len_data_loader = 0
    /\ batch_losses = << >>
    /\ TrainState
    /\ tf_input \in ForwardInputs
    /\ tf_scheduler = tf_input.scheduler_prediction_type
    /\ tf_calls = << >>
    /\ tf_result = None
    /\ DistIdle
    /\ PrecomputeIdle
    /\ TiLoaderIdle

\* One call of train_forward().
TrainForward ==
    /\ tf_result = None
    /\ LET in == tf_input
           type == RegisteredPredictionType(in.prediction_type, tf_scheduler)
           target == ForwardTarget(type, in)
       IN /\ tf_scheduler' = type
          /\ IF target = None
             THEN /\ tf_calls' = CallsBeforeDenoiser(type, in)
                  /\ tf_result' = [status |-> "raised",
                                   error |-> "unknown_prediction_type",
                                   target |-> None,
                                   min_snr_weights |-> None,
                                   reads |-> FieldsReadBeforeDenoiser(in),
                                   loss_shape |-> None]
             ELSE /\ tf_calls' = CallsBeforeDenoiser(type, in) \o CallsFromDenoiser(in)
                  /\ tf_result' = [status |-> "returned",
                                   error |-> "none",
                                   target |-> target,
                                   min_snr_weights |->
                                       MinSnrWeights(type, in.snr, in.min_snr_gamma),
                                   reads |-> FieldsReadBeforeDenoiser(in)
                                                 \cup FieldsReadFromDenoiser(in),
                                   loss_shape |-> LossShape]
    /\ UNCHANGED <<tf_input, trainVars, distVars, precomputeVars, tiLoaderVars>>

NextForward == TrainForward

\* Single calls of train_forward() over all inputs.
SpecForward == InitForward /\ [][NextForward]_vars

\* ---------------------------------------------------------------------------
\* train() run by several worker processes under accelerate.
\* ---------------------------------------------------------------------------
\* accelerator.process_index of every worker.
Workers == 1..NumWorkers

\* The sample ids of the dataset.
SampleIds == 1..DistIds

\* The two output caches, in the order train() prepares them.
CacheKinds == {"text_encoder", "vae"}

\* Mutant: every process takes itself for the main process.
IsMainProcess_Every(w) == TRUE

\* accelerator.is_main_process: the process of index 0.
IsMainProcess(w) == \A v \in Workers : w <= v

\* Mutant: every process takes itself for the main process of its machine.
IsLocalMainProcess_Every(w) == TRUE

\* accelerator.is_local_main_process: the first process of its machine.
IsLocalMainProcess(w) == w \in dist_config.local_main

\* The sets of first-of-machine processes of the possible launches: the main
\* process is the first process of the first machine.
Topologies == {S \in SUBSET Workers : \E w \in S : IsMainProcess(w)}

\* The configurations of the runs with several workers: checkpoint and
\* validation after every step.
DistConfigs ==
    [cache_text_encoder_outputs : BOOLEAN,
     cache_vae_outputs : BOOLEAN,
     max_train_steps : 1..DistMaxTrainSteps,
     has_validation_prompts : BOOLEAN,
     local_main : Topologies]

\* config.cache_text_encoder_outputs / config.cache_vae_outputs
CachingEnabled(kind) ==
    IF kind = "text_encoder"
    THEN dist_config.cache_text_encoder_outputs
    ELSE dist_config.cache_vae_outputs

\* tempfile.TemporaryDirectory(): a fresh directory for each call of each process.
TempDir(w, kind) == [owner |-> w, kind |-> kind]

\* The ids with a bundle in a cache directory.
Populated(dir) == {f.id : f \in {g \in cache_files : g.dir = dir}}

\* TensorDiskCache(dir).load(id) finds a bundle.
CacheHit(dir, id) == id \in Populated(dir)

\* The precomputation job has written every id.
CacheComplete(dir) == Populated(dir) = SampleIds

\* The phase that follows the preparation of a cache.
NextAfterCache(kind) ==
    IF kind = "text_encoder" THEN <<"vae", "begin">> ELSE <<"loader", "build">>

\* A worker calls a collective operation and blocks in it.
Arrive(rec, at) ==
    [rec EXCEPT !.pc = <<at, "wait">>, !.arrived = @ + 1, !.barriers = Append(@, at)]

\* Mutant: the barrier does not count the workers that died.
BarrierOpen_LiveOnly(w) ==
    \A v \in Workers :
        \/ worker[v].pc[1] = "failed"
        \/ worker[v].arrived >= worker[w].arrived

\* accelerator.wait_for_everyone() returns: every worker has made the call.
BarrierOpen(w) == \A v \in Workers : worker[v].arrived >= worker[w].arrived

InitDist ==
    /\ config = None
    /\ len_data_loader = 0
    /\ batch_losses = << >>
    /\ TrainState
    /\ ForwardIdle
    /\ dist_config \in DistConfigs
    /\ worker = [w \in Workers |->
                    [pc |-> <<"text_encoder", "begin">>, arrived |-> 0, global_step |-> 0,
                     batches |-> 0, loader |-> None, err |-> "none",
                     barriers |-> << >>]]
    /\ cache_files = {}
    /\ cache_reads = {}
    /\ active_writers = {}
    /\ side_effects = << >>
    /\ PrecomputeIdle
    /\ TiLoaderIdle

\* `if config.cache_..._outputs:` up to the precomputation job or the barrier.
BeginCache(w) ==
    /\ worker[w].pc[2] = "begin"
    /\ LET kind == worker[w].pc[1]
       IN worker' = [worker EXCEPT ![w] =
              IF ~CachingEnabled(kind)
              THEN [@ EXCEPT !.pc = NextAfterCache(kind)]
              ELSE IF IsLocalMainProcess(w)
                   THEN [@ EXCEPT !.pc = <<kind, "populate">>]
                   ELSE Arrive(@, kind)]
    /\ UNCHANGED <<dist_config, cache_files, cache_reads, active_writers, side_effects>>
    /\ UNCHANGED <<trainVars, forwardVars, precomputeVars, tiLoaderVars>>

\* One cache.save() of the precomputation job, into the worker's own directory.
PopulateStep(w) ==
    /\ worker[w].pc[2] = "populate"
    /\ LET kind == worker[w].pc[1]
           dir == TempDir(w, kind)
           id == CHOOSE i \in SampleIds \ Populated(dir) :
                     \A j \in SampleIds \ Populated(dir) : i <= j
       IN /\ cache_files' = cache_files \cup {[dir |-> dir, id |-> id, writer |-> w]}
          /\ worker' = [worker EXCEPT ![w] =
                 IF Populated(dir) \cup {id} = SampleIds THEN Arrive(@, kind) ELSE @]
    /\ UNCHANGED <<dist_config, cache_reads, active_writers, side_effects>>
    /\ UNCHANGED <<trainVars, forwardVars, precomputeVars, tiLoaderVars>>

\* The precomputation job raises: the process dies before the barrier.
FailPopulating(w) ==
    /\ worker[w].pc[2] = "populate"
    /\ worker' = [worker EXCEPT ![w] =
           [@ EXCEPT !.pc = <<"failed", worker[w].pc[1]>>, !.err = "populate_failure"]]
    /\ UNCHANGED <<dist_config, cache_files, cache_reads, active_writers, side_effects>>
    /\ UNCHANGED <<trainVars, forwardVars, precomputeVars, tiLoaderVars>>

\* accelerator.wait_for_everyone() after the cache preparation returns.
PassCacheBarrier(w) ==
    /\ worker[w].pc[1] \in CacheKinds
    /\ worker[w].pc[2] = "wait"
    /\ BarrierOpen(w)
    /\ worker' = [worker EXCEPT ![w] = [@ EXCEPT !.pc = NextAfterCache(worker[w].pc[1])]]
    /\ UNCHANGED <<dist_config, cache_files, cache_reads, active_writers, side_effects>>
    /\ UNCHANGED <<trainVars, forwardVars, precomputeVars, tiLoaderVars>>

\* The training data loader, built on the worker's own cache directory names.
WorkerBuildDataLoader(w) ==
    /\ worker[w].pc = <<"loader", "build">>
    /\ worker' = [worker EXCEPT ![w] =
           [@ EXCEPT !.pc = <<"train", "batch">>,
                     !.loader = [kind \in CacheKinds |->
                                    IF CachingEnabled(kind) THEN TempDir(w, kind) ELSE None]]]
    /\ UNCHANGED <<dist_config, cache_files, cache_reads, active_writers, side_effects>>
    /\ UNCHANGED <<trainVars, forwardVars, precomputeVars, tiLoaderVars>>

\* One batch: the cache lookups of its sample, train_forward(), and the
\* gather of the losses of all processes.
WorkerTrainBatch(w) ==
    /\ worker[w].pc = <<"train", "batch">>
    /\ \E id \in SampleIds :
         LET lookups == {[worker |-> w, dir |-> worker[w].loader[kind], id |-> id,
                          hit |-> CacheHit(worker[w].loader[kind], id)] :
                             kind \in {k \in CacheKinds : worker[w].loader[k] # None}}
         IN /\ cache_reads' = cache_reads \cup lookups
            /\ worker' = [worker EXCEPT ![w] =
                   IF \E l \in lookups : ~l.hit
                   THEN [@ EXCEPT !.pc = <<"failed", "train">>, !.err = "missing_entry"]
                   ELSE Arrive([@ EXCEPT !.batches = @ + 1], "gather")]
    /\ UNCHANGED <<dist_config, cache_files, active_writers, side_effects>>
    /\ UNCHANGED <<trainVars, forwardVars, precomputeVars, tiLoaderVars>>

\* The gather returns, the optimizer steps, and save_checkpoint() is entered.
WorkerSyncStep(w) ==
    /\ worker[w].pc = <<"gather", "wait">>
    /\ BarrierOpen(w)
    /\ worker' = [worker EXCEPT ![w] = Arrive([@ EXCEPT !.global_step = @ + 1], "save_pre")]
    /\ UNCHANGED <<dist_config, cache_files, cache_reads, active_writers, side_effects>>
    /\ UNCHANGED <<trainVars, forwardVars, precomputeVars, tiLoaderVars>>

\* The first barrier of save_checkpoint() / validate() returns: the main
\* process starts the side effect, the others go to the second barrier.
BeginSideEffect(w) ==
    /\ worker[w].pc \in {<<"save_pre", "wait">>, <<"validate_pre", "wait">>}
    /\ BarrierOpen(w)
    /\ LET kind == IF worker[w].pc[1] = "save_pre" THEN "save" ELSE "validate"
       IN IF IsMainProcess(w)
          THEN /\ worker' = [worker EXCEPT ![w] = [@ EXCEPT !.pc = <<kind, "write">>]]
               /\ active_writers' = active_writers \cup {[worker |-> w, kind |-> kind]}
          ELSE /\ worker' = [worker EXCEPT ![w] = Arrive(@, kind)]
               /\ UNCHANGED active_writers
    /\ UNCHANGED <<dist_config, cache_files, cache_reads, side_effects>>
    /\ UNCHANGED <<trainVars, forwardVars, precomputeVars, tiLoaderVars>>

\* _save_sd_lora_checkpoint() / generate_validation_images_sd() returns.
EndSideEffect(w) ==
    /\ worker[w].pc[2] = "write"
    /\ LET kind == worker[w].pc[1]
       IN /\ side_effects' = Append(side_effects,
                 [worker |-> w, kind |-> kind, step |-> worker[w].global_step])
          /\ active_writers' = active_writers \ {[worker |-> w, kind |-> kind]}
          /\ worker' = [worker EXCEPT ![w] = Arrive(@, kind)]
    /\ UNCHANGED <<dist_config, cache_files, cache_reads>>
    /\ UNCHANGED <<trainVars, forwardVars, precomputeVars, tiLoaderVars>>

\* Mutant: the workers other than the main process run one step longer.
WorkerBudgetReached_OthersOneMore(w) ==
    worker[w].global_step >=
        dist_config.max_train_steps + (IF IsMainProcess(w) THEN 0 ELSE 1)

\* if global_step >= num_train_steps: break, and the epoch loop ends with it.
WorkerBudgetReached(w) == worker[w].global_step >= dist_config.max_train_steps

\* The second barrier of save_checkpoint() / validate() returns.
AfterSideEffect(w) ==
    /\ worker[w].pc \in {<<"save", "wait">>, <<"validate", "wait">>}
    /\ BarrierOpen(w)
    /\ worker' = [worker EXCEPT ![w] =
           IF worker[w].pc[1] = "save" /\ dist_config.has_validation_prompts
           THEN Arrive(@, "validate_pre")
           ELSE IF WorkerBudgetReached(w)
                THEN [@ EXCEPT !.pc = <<"done", "done">>]
                ELSE [@ EXCEPT !.pc = <<"train", "batch">>]]
    /\ UNCHANGED <<dist_config, cache_files, cache_reads, active_writers, side_effects>>
    /\ UNCHANGED <<trainVars, forwardVars, precomputeVars, tiLoaderVars>>

NextDist ==
    \E w \in Workers :
        \/ BeginCache(w)
        \/ PopulateStep(w)
        \/ FailPopulating(w)
        \/ PassCacheBarrier(w)
        \/ WorkerBuildDataLoader(w)
        \/ WorkerTrainBatch(w)
        \/ WorkerSyncStep(w)
        \/ BeginSideEffect(w)
        \/ EndSideEffect(w)
        \/ AfterSideEffect(w)

\* train() run by NumWorkers processes, over cache options and launches.
SpecDist == InitDist /\ [][NextDist]_vars

\* The same, with every process that can run eventually running.
FairSpecDist == InitDist /\ [][NextDist]_vars /\ WF_vars(NextDist)

\* ---------------------------------------------------------------------------
\* The output precomputation jobs and the data loader they iterate.
\* ---------------------------------------------------------------------------
DataLoaderTypes == {"IMAGE_CAPTION_SD_DATA_LOADER", "DREAMBOOTH_SD_DATA_LOADER"}

\* The inputs of one job: which cache, the data loader configuration, the
\* batch size, and the dataset as the aspect-ratio bucket of each sample id.
PrecomputeInputs ==
    UNION {[job : CacheKinds,
            type : DataLoaderTypes \cup {"unsupported"},
            aspect_ratio_buckets : BOOLEAN,
            batch_size : 1..PreMaxBatchSize,
            bucket_of : [1..n -> 1..PreMaxBuckets]] : n \in 1..PreMaxIds}

\* The ids of the dataset, in dataset order.
DatasetOrder(cfg) == [i \in 1..Len(cfg.bucket_of) |-> i]

\* Consecutive batches of at most `size` elements.
Chunk(ids, size) ==
    [k \in 1..Ceil(Len(ids), size) |->
        SubSeq(ids, (k - 1) * size + 1, Min(k * size, Len(ids)))]

\* Unshuffled fixed-size batching: the ids in dataset order.
SequentialBatches(cfg, batch_size) == Chunk(DatasetOrder(cfg), batch_size)

\* The ids of one aspect-ratio bucket, in dataset order.
BucketIds(cfg, b) ==
    LET InBucket(i) == cfg.bucket_of[i] = b
    IN SelectSeq(DatasetOrder(cfg), InBucket)

RECURSIVE BucketedBatchesFrom(_, _, _)

\* Unshuffled aspect-ratio-bucketed batching: every batch holds ids of one
\* bucket only.
BucketedBatchesFrom(cfg, batch_size, b) ==
    IF b > PreMaxBuckets
    THEN << >>
    ELSE Chunk(BucketIds(cfg, b), batch_size) \o BucketedBatchesFrom(cfg, batch_size, b + 1)

BucketedBatches(cfg, batch_size) ==
    LET first == CHOOSE b \in 1..PreMaxBuckets : \A c \in 1..PreMaxBuckets : b <= c
    IN BucketedBatchesFrom(cfg, batch_size, first)

\* build_image_caption_sd_dataloader(config, batch_size, shuffle=False): the
\* batch sampler follows config.aspect_ratio_buckets.
BuildImageCaptionSdDataloader(cfg, batch_size) ==
    IF cfg.aspect_ratio_buckets
    THEN BucketedBatches(cfg, batch_size)
    ELSE SequentialBatches(cfg, batch_size)

\* build_dreambooth_sd_dataloader(config, batch_size, shuffle=False,
\* sequential_batching): sequential batching overrides the bucketing.
BuildDreamboothSdDataloader(cfg, batch_size, sequential_batching) ==
    IF cfg.aspect_ratio_buckets /\ ~sequential_batching
    THEN BucketedBatches(cfg, batch_size)
    ELSE SequentialBatches(cfg, batch_size)

\* _build_data_loader(data_loader_config, batch_size, shuffle=False,
\* sequential_batching): the batches of the loader, or None where it raises.
BuildDataLoader(cfg, batch_size, sequential_batching) ==
    IF cfg.type = "IMAGE_CAPTION_SD_DATA_LOADER"
    THEN BuildImageCaptionSdDataloader(cfg, batch_size)
    ELSE IF cfg.type = "DREAMBOOTH_SD_DATA_LOADER"
         THEN BuildDreamboothSdDataloader(cfg, batch_size, sequential_batching)
         ELSE None

InitPrecompute ==
    /\ config = None
    /\ len_data_loader = 0
    /\ batch_losses = << >>
    /\ TrainState
    /\ ForwardIdle
    /\ DistIdle
    /\ pre_input \in PrecomputeInputs
    /\ pre_pc = "build"
    /\ pre_batches = None
    /\ pre_pos = 0
    /\ pre_writes = << >>
    /\ TiLoaderIdle

\* The job builds its data loader: shuffle=False, sequential_batching=True.
PrecomputeBuildLoader ==
    /\ pre_pc = "build"
    /\ LET batches == BuildDataLoader(pre_input, pre_input.batch_size, TRUE)
       IN IF pre_input.type \notin DataLoaderTypes
          THEN /\ pre_pc' = "error"
               /\ UNCHANGED pre_batches
          ELSE /\ pre_pc' = "iterate"
               /\ pre_batches' = batches
    /\ UNCHANGED <<pre_input, pre_pos, pre_writes>>
    /\ UNCHANGED <<trainVars, forwardVars, distVars, tiLoaderVars>>

\* One iteration of `for data_batch in tqdm(data_loader)`: one cache.save()
\* for each id of the batch.
PrecomputeBatch ==
    /\ pre_pc = "iterate"
    /\ pre_pos' = pre_pos + 1
    /\ pre_writes' = pre_writes \o pre_batches[pre_pos + 1]
    /\ pre_pc' = IF pre_pos + 1 = Len(pre_batches) THEN "done" ELSE "iterate"
    /\ UNCHANGED <<pre_input, pre_batches>>
    /\ UNCHANGED <<trainVars, forwardVars, distVars, tiLoaderVars>>

NextPrecompute ==
    \/ PrecomputeBuildLoader
    \/ PrecomputeBatch

\* Single precomputation jobs over datasets and data loader configurations.
SpecPrecompute == InitPrecompute /\ [][NextPrecompute]_vars

\* ---------------------------------------------------------------------------
\* build_textual_inversion_sd_dataloader(): the data loader of a textual
\* inversion dataset.
\* ---------------------------------------------------------------------------
\* The dataset configurations the builder accepts.
DatasetConfigTypes ==
    {"HFHubImageCaptionDatasetConfig", "HFDirImageCaptionDatasetConfig",
     "ImageDirDatasetConfig"}

\* The presets get_preset_ti_caption_templates() knows.
CaptionPresets == {"object", "style"}

CaptionTemplateTexts == {"a photo of a {}", "a painting in the style of {}"}

\* The lists config.caption_templates may hold, the empty list included.
CaptionTemplateLists ==
    UNION {[1..n -> CaptionTemplateTexts] : n \in 0..TiMaxTemplates}

\* The arguments of one call: the fields of the config that the builder reads,
\* vae_output_cache_dir and shuffle.
TiLoaderInputs ==
    [dataset_type : DatasetConfigTypes \cup {"unsupported"},
     caption_templates : {None} \cup {Some(l) : l \in CaptionTemplateLists},
     caption_preset : {None} \cup {Some(p) : p \in CaptionPresets \cup {"unrecognized"}},
     apply_caption_prefix : BOOLEAN,
     shuffle_caption_delimiter : {None, Some(",")},
     aspect_ratio_buckets : BOOLEAN,
     vae_output_cache_dir : {None, Some("vae_cache")},
     shuffle : BOOLEAN]

\* The base dataset of each configuration type, or None where the builder
\* raises for an unexpected type.
BaseDataset(dataset_type) ==
    IF dataset_type = "HFHubImageCaptionDatasetConfig"
    THEN Some("hf_hub_image_caption_dataset")
    ELSE IF dataset_type = "HFDirImageCaptionDatasetConfig"
         THEN Some("hf_dir_image_caption_dataset")
         ELSE IF dataset_type = "ImageDirDatasetConfig"
              THEN Some("ImageDirDataset")
              ELSE None

\* int(b) of a python bool.
BoolToInt(b) == IF b THEN 1 ELSE 0

\* sum([caption_templates is not None, caption_preset is not None,
\*      apply_caption_prefix])
NumCaptionOptions(in) ==
    BoolToInt(in.caption_templates # None)
    + BoolToInt(in.caption_preset # None)
    + BoolToInt(in.apply_caption_prefix)

\* Mutant: the builder only rejects a config with no caption option.
CaptionOptionsValid_AtLeastOne(in) == NumCaptionOptions(in) # 0

\* The guard `if sum([...]) != 1: raise ValueError(...)` lets the call through.
CaptionOptionsValid(in) == NumCaptionOptions(in) = 1

\* get_preset_ti_caption_templates(preset): the template list of the preset,
\* or None where it raises for an unrecognized preset.
GetPresetTiCaptionTemplates(preset) ==
    IF preset = "object"
    THEN Some("object_templates")
    ELSE IF preset = "style"
         THEN Some("style_templates")
         ELSE None

\* A transform, as the class constructed and its distinguishing argument.
Transform(class, arg) == [class |-> class, arg |-> arg]

\* caption_tf of the if / elif chain, or None where the chain raises.
CaptionTransform(in) ==
    IF in.caption_templates # None
    THEN Transform("TemplateCaptionTransform", in.caption_templates)
    ELSE IF in.caption_preset # None
         THEN IF GetPresetTiCaptionTemplates(in.caption_preset[1]) = None
              THEN None
              ELSE Transform("TemplateCaptionTransform",
                             GetPresetTiCaptionTemplates(in.caption_preset[1]))
         ELSE IF in.apply_caption_prefix
              THEN Transform("CaptionPrefixTransform", Some("placeholder_token "))
              ELSE None

\* batch_sampler: None for a fixed resolution, else the bucket batch sampler,
\* which takes over `shuffle`.
BatchSampler(in) ==
    IF ~in.aspect_ratio_buckets
    THEN None
    ELSE Some([class |-> "AspectRatioBucketBatchSampler", shuffle |-> in.shuffle])

\* Mutant: the image transform is appended whether or not a VAE cache is given.
ImageTransforms_AlwaysAugment(in) ==
    <<Transform("SDImageTransform", Some("image"))>>
    \o (IF in.vae_output_cache_dir = None
        THEN << >>
        ELSE <<Transform("LoadCacheTransform", in.vae_output_cache_dir),
               Transform("DropFieldTransform", Some("image"))>>)

\* The transforms appended by `if vae_output_cache_dir is None: ... else: ...`.
ImageTransforms(in) ==
    IF in.vae_output_cache_dir = None
    THEN <<Transform("SDImageTransform", Some("image"))>>
    ELSE <<Transform("LoadCacheTransform", in.vae_output_cache_dir),
           Transform("DropFieldTransform", Some("image"))>>

\* all_transforms, in the order the builder appends them.
AllTransforms(in, caption_tf) ==
    <<caption_tf>>
    \o (IF in.shuffle_caption_delimiter # None
        THEN <<Transform("ShuffleCaptionTransform", in.shuffle_caption_delimiter)>>
        ELSE << >>)
    \o ImageTransforms(in)

\* The fields of a sample of the base dataset: only the caption datasets
\* carry a caption.
BaseFields(dataset_type) ==
    IF dataset_type = "ImageDirDatasetConfig"
    THEN {"id", "image"}
    ELSE {"id", "image", "caption"}

\* The fields of a sample after one transform.
ApplyTransform(fields, tf) ==
    IF tf.class = "TemplateCaptionTransform"
    THEN fields \cup {"caption"}
    ELSE IF tf.class = "SDImageTransform"
         THEN fields \cup {"original_size_hw", "crop_top_left_yx"}
         ELSE IF tf.class = "LoadCacheTransform"
              THEN fields \cup {"vae_output", "original_size_hw", "crop_top_left_yx"}
              ELSE IF tf.class = "DropFieldTransform"
                   THEN fields \ {tf.arg[1]}
                   ELSE fields

RECURSIVE ApplyTransforms(_, _)

\* TransformDataset(base_dataset, all_transforms): the fields of its samples.
ApplyTransforms(fields, tfs) ==
    IF tfs = << >>
    THEN fields
    ELSE ApplyTransforms(ApplyTransform(fields, Head(tfs)), Tail(tfs))

\* What a call that raised leaves behind: no data loader.
TiRaised(error) ==
    [status |-> "raised", exception |-> "ValueError", error |-> error,
     data_loader |-> None]

InitTiLoader ==
    /\ config = None
    /\ len_data_loader = 0
    /\ batch_losses = << >>
    /\ TrainState
    /\ ForwardIdle
    /\ DistIdle
    /\ PrecomputeIdle
    /\ ti_input \in TiLoaderInputs
    /\ ti_result = None

\* One call of build_textual_inversion_sd_dataloader().
BuildTextualInversionSdDataloader ==
    /\ ti_result = None
    /\ LET in == ti_input
           caption_tf == CaptionTransform(in)
           all_transforms == AllTransforms(in, caption_tf)
       IN ti_result' =
              IF BaseDataset(in.dataset_type) = None
              THEN TiRaised("unexpected_dataset_config_type")
              ELSE IF ~CaptionOptionsValid(in)
                   THEN TiRaised("exactly_one_caption_option")
                   ELSE IF in.caption_templates = None /\ in.caption_preset # None
                           /\ GetPresetTiCaptionTemplates(in.caption_preset[1]) = None
                        THEN TiRaised("unrecognized_learnable_property_type")
                        ELSE IF caption_tf = None
                             THEN TiRaised("exactly_one_caption_option")
                             ELSE [status |-> "returned",
                                   exception |-> "none",
                                   error |-> "none",
                                   data_loader |->
                                       Some([base_dataset |-> BaseDataset(in.dataset_type)[1],
                                             transforms |-> all_transforms,
                                             sample_fields |->
                                                 ApplyTransforms(BaseFields(in.dataset_type),
                                                                 all_transforms),
                                             batch_sampler |-> BatchSampler(in),
                                             shuffle |-> IF BatchSampler(in) = None
                                                         THEN Some(in.shuffle)
                                                         ELSE None])]
    /\ UNCHANGED <<ti_input, trainVars, forwardVars, distVars, precomputeVars>>

NextTiLoader == BuildTextualInversionSdDataloader

\* Single calls of build_textual_inversion_sd_dataloader() over all inputs.
SpecTiLoader == InitTiLoader /\ [][NextTiLoader]_vars

\* ---------------------------------------------------------------------------
\* Properties of the training loop.
\* ---------------------------------------------------------------------------
\* The total optimizer-update budget, from the configuration alone.
Budget ==
    IF config.max_train_steps # None
    THEN config.max_train_steps[1]
    ELSE config.max_train_epochs[1]
         * Ceil(len_data_loader, config.gradient_accumulation_steps)

\* Batch idx of an epoch is an accumulation boundary: a multiple of
\* gradient_accumulation_steps batches has been seen, or it is the last one.
IsSyncBoundary(idx) ==
    \/ (idx + 1) % config.gradient_accumulation_steps = 0
    \/ idx + 1 = len_data_loader

\* The last inner loop ran through every batch of the data loader.
LoaderExhausted == data_batch_idx + 1 = len_data_loader

\* C1: global_step starts at 0, never decreases, grows by exactly 1 in a
\* batch that is an accumulation boundary and by 0 in every other step.
C1_GlobalStepPerSync ==
    /\ global_step = 0
    /\ [][IF batches_processed' = batches_processed + 1 /\ IsSyncBoundary(data_batch_idx)
          THEN global_step' = global_step + 1
          ELSE global_step' = global_step]_vars

\* C1 witness: the short last accumulation group of an epoch has been synced
\* (batch count not a multiple of gradient_accumulation_steps).
C1_Witness ==
    /\ pc = "epoch_end"
    /\ LoaderExhausted
    /\ len_data_loader % config.gradient_accumulation_steps # 0
    /\ len_data_loader > config.gradient_accumulation_steps
    /\ global_step = Ceil(len_data_loader, config.gradient_accumulation_steps)

\* C2: the loop terminates, global_step never exceeds the budget, equals it
\* at termination, and no batch is processed once the budget is reached.
C2_TerminatesAtBudget ==
    /\ [](global_step <= Budget)
    /\ [](pc = "done" => global_step = Budget)
    /\ [][global_step >= Budget => batches_processed' = batches_processed]_vars
    /\ <>(pc = "done")

\* C2 witness: training has ended in the middle of an epoch, on the budget.
C2_Witness ==
    /\ pc = "done"
    /\ ~LoaderExhausted
    /\ global_step = Budget
    /\ epoch > 1

\* C3: after k fully consumed epochs exactly k * ceil(B / A) optimizer updates
\* have been made (ceil(B / A) in each), and when the budget is a multiple of
\* ceil(B / A) training ends at an epoch boundary, after budget / ceil(B / A)
\* epochs, with completed_epochs equal to that number.
C3_UpdatesPerEpoch ==
    LET perEpoch == Ceil(len_data_loader, config.gradient_accumulation_steps)
    IN /\ (pc = "epoch_end" /\ LoaderExhausted)
            => /\ global_step = (epoch + 1) * perEpoch
               /\ optimizer_updates = (epoch + 1) * perEpoch
       /\ (pc = "done" /\ Budget % perEpoch = 0)
            => /\ LoaderExhausted
               /\ global_step = Budget
               /\ completed_epochs = Budget \div perEpoch
               /\ epoch = Budget \div perEpoch

\* C3 witness: max_train_steps = 10, gradient_accumulation_steps = 2 and 10
\* batches per epoch: 5 updates per epoch, training has stopped after the 2nd
\* epoch at global_step = 10.
C3_Witness ==
    /\ pc = "done"
    /\ config.max_train_steps = Some(10)
    /\ config.gradient_accumulation_steps = 2
    /\ len_data_loader = 10
    /\ global_step = 10
    /\ completed_epochs = 2
    /\ epoch = 2
    /\ LoaderExhausted

\* C4: in step-cadence mode the checkpoints saved so far are exactly those of
\* the positive multiples of save_every_n_steps up to global_step, one each,
\* tagged with that step (so none is saved at an epoch boundary).
C4_StepCadenceSaves ==
    (config.save_every_n_steps # None /\ config.save_every_n_epochs = None)
        => LET n == config.save_every_n_steps[1]
           IN /\ Len(saves) = global_step \div n
              /\ \A i \in 1..Len(saves) : saves[i].step = i * n

\* C4 witness: step mode, two epochs are over and two checkpoints were saved
\* at a cadence that skips steps.
C4_Witness ==
    /\ config.save_every_n_steps # None
    /\ config.save_every_n_steps[1] > 1
    /\ pc = "done"
    /\ epoch >= 2
    /\ Len(saves) >= 2

\* C5: in epoch-cadence mode a checkpoint is saved exactly once for each
\* completed-epoch count that is a positive multiple of save_every_n_epochs,
\* when that epoch's data loader is exhausted, and at no other time.
C5_EpochCadenceSavesOnce ==
    (config.save_every_n_epochs # None /\ config.save_every_n_steps = None)
        => LET m == config.save_every_n_epochs[1]
           IN /\ Len(saves) <= completed_epochs \div m
              /\ \A i \in 1..Len(saves) : saves[i].epoch = i * m

\* C6: validation never runs without prompts; with prompts, step mode
\* validates exactly at the positive multiples of validate_every_n_steps, and
\* epoch mode validates at every epoch boundary whose completed_epochs is a
\* multiple of validate_every_n_epochs.
C6_ValidationCadence ==
    LET perEpoch == Ceil(len_data_loader, config.gradient_accumulation_steps)
        boundaries == {k \in 1..epoch : k <= completed_epochs}
    IN /\ config.validation_prompts = 0 => validations = << >>
       /\ (config.validation_prompts > 0 /\ config.validate_every_n_steps # None)
            => LET n == config.validate_every_n_steps[1]
               IN /\ Len(validations) = global_step \div n
                  /\ \A i \in 1..Len(validations) : validations[i].step = i * n
       /\ (config.validation_prompts > 0 /\ config.validate_every_n_epochs # None)
            => LET m == config.validate_every_n_epochs[1]
               IN \A k \in boundaries :
                    k % m = 0 => \E i \in 1..Len(validations) :
                                    validations[i] = Tag(k, k * perEpoch)

\* C6 witness: prompts are configured, epoch mode, the second epoch boundary
\* has been validated.
C6_Witness ==
    /\ config.validation_prompts > 0
    /\ config.validate_every_n_epochs = Some(2)
    /\ pc = "done"
    /\ \E i \in 1..Len(validations) : validations[i].epoch = 2

\* ---------------------------------------------------------------------------
\* Properties of the configuration errors.
\* ---------------------------------------------------------------------------
NothingHeavyDone ==
    /\ ~models_loaded
    /\ ~text_encoder_cache_populated
    /\ ~vae_cache_populated
    /\ batches_processed = 0
    /\ optimizer_updates = 0

\* C7: with cache_text_encoder_outputs and train_text_encoder both True the
\* configuration error is raised before any model is loaded and before any
\* computation starts.
C7_TextEncoderCacheConflictBeforeLoad ==
    err = "cache_text_encoder_outputs_with_train_text_encoder" => NothingHeavyDone

\* Some option pair has both members or neither member set.
PairViolation ==
    \/ NumSet(config.max_train_steps, config.max_train_epochs) # 1
    \/ NumSet(config.save_every_n_steps, config.save_every_n_epochs) # 1
    \/ NumSet(config.validate_every_n_steps, config.validate_every_n_epochs) # 1

\* C8: if some option pair has both or neither member set, train() never gets
\* past the asserts (no batch, no optimizer update, no checkpoint save, no
\* validation, no normal end); if every pair has exactly one member set, the
\* option-pair error is never raised.
C8_OptionPairsChecked ==
    /\ PairViolation
         => /\ pc \in {"load_models", "text_encoder_cache", "vae_cache", "build",
                       "assert_options", "error"}
            /\ batches_processed = 0
            /\ optimizer_updates = 0
            /\ saves = << >>
            /\ validations = << >>
    /\ ~PairViolation => err # "option_pair_assertion"

\* C8 witness: both save cadences are set and the assert has fired.
C8_Witness ==
    /\ config.save_every_n_steps # None
    /\ config.save_every_n_epochs # None
    /\ err = "option_pair_assertion"

\* C9: an unsupported lora_checkpoint_format is rejected before any model
\* load, cache population, training batch or optimizer update.
C9_FormatRejectedBeforeHeavyWork ==
    err = "unsupported_lora_checkpoint_format" => NothingHeavyDone

\* C10: with cache_vae_outputs True and random_flip True or center_crop False
\* the error is raised before either cache has been populated and before any
\* training batch, whatever cache_text_encoder_outputs is.
C10_VaeCacheConflictBeforePrecompute ==
    err \in {"cache_vae_outputs_with_random_flip", "cache_vae_outputs_without_center_crop"}
        => /\ ~text_encoder_cache_populated
           /\ ~vae_cache_populated
           /\ batches_processed = 0


\* ---------------------------------------------------------------------------
\* Properties of checkpoint retention, callbacks and learning-rate logging.
\* ---------------------------------------------------------------------------
\* C11: with a checkpoint limit the directory never holds more than
\* max_checkpoints files: it holds the latest min(saves, max_checkpoints)
\* checkpoints, and the files deleted are exactly the older ones, oldest
\* first, one per save once max_checkpoints have been written.
C11_RetentionBound ==
    config.max_checkpoints # None
        => LET limit == config.max_checkpoints[1]
               n == Len(saves)
               gone == IF n > limit THEN n - limit ELSE 0
           IN /\ Len(checkpoints) <= limit
              /\ checkpoints = SubSeq(saves, gone + 1, n)
              /\ removed = SubSeq(saves, 1, gone)

\* C11 witness: more saves than the limit, two files have been pruned.
C11_Witness ==
    /\ config.max_checkpoints # None
    /\ Len(saves) > config.max_checkpoints[1] + 1
    /\ Len(removed) >= 2
    /\ Len(checkpoints) = config.max_checkpoints[1]

\* C16: every callback is notified exactly once per successful save, in save
\* order, with the path of get_path(epoch, step), the same tag and the model
\* kind of the format; nothing is notified when the save raises or when
\* callbacks is None.
C16_CallbacksPerSave ==
    LET n == IF config.callbacks = None THEN 0 ELSE config.callbacks[1]
        kind == IF config.lora_checkpoint_format = "invoke_peft"
                THEN "SD1_LORA_PEFT"
                ELSE IF config.lora_checkpoint_format = "kohya"
                     THEN "SD1_LORA_KOHYA"
                     ELSE "none"
    IN /\ Len(callback_log) = Len(saves) * n
       /\ \A k \in 1..Len(saves) : \A i \in 1..n :
            callback_log[(k - 1) * n + i] =
                [callback |-> i, file_path |-> GetPath(saves[k]), model_type |-> kind,
                 epoch |-> saves[k].epoch, step |-> saves[k].step]
       /\ err = "unsupported_lora_checkpoint_format" => callback_log = << >>

\* C16 witness: two callbacks, invoke_peft format, two saves notified.
C16_Witness ==
    /\ config.callbacks = Some(2)
    /\ config.lora_checkpoint_format = "invoke_peft"
    /\ Len(saves) = 2
    /\ Len(callback_log) = 4

\* C19: once the adapters are injected the U-Net group is first (when trained)
\* and the text-encoder group last (when trained), and every log record
\* reports under lr/unet the U-Net group's rate and under lr/text_encoder the
\* text-encoder group's rate.
C19_LrAttribution ==
    pc \in {"assert_options", "schedule", "epoch", "batch", "epoch_end", "done"}
        => /\ config.train_unet
                => /\ trainable_param_groups[1].component = "unet"
                   /\ log # None
                        => log.lr_unet = [component |-> "unet",
                                          lr |-> config.unet_learning_rate]
           /\ config.train_text_encoder
                => /\ trainable_param_groups[Len(trainable_param_groups)].component
                        = "text_encoder"
                   /\ log # None
                        => log.lr_text_encoder = [component |-> "text_encoder",
                                                  lr |-> config.text_encoder_learning_rate]

\* C19 witness: both components trained with their own learning rates, a log
\* record has been emitted.
C19_Witness ==
    /\ config.train_unet
    /\ config.train_text_encoder
    /\ config.unet_learning_rate = Some(1)
    /\ config.text_encoder_learning_rate = Some(2)
    /\ log # None
    /\ pc = "done"

\* ---------------------------------------------------------------------------
\* Properties of train_forward().
\* ---------------------------------------------------------------------------
\* The prediction type in effect for a call: the configured one if set,
\* otherwise the one the scheduler was loaded with.
EffectivePredictionType ==
    IF tf_input.prediction_type # None
    THEN tf_input.prediction_type[1]
    ELSE tf_input.scheduler_prediction_type

\* C17: the regression target follows the effective prediction type: the
\* sampled noise for "epsilon", the scheduler's velocity of (latents, noise,
\* timesteps) for "v_prediction"; any other type raises an unknown-prediction-
\* type error before the denoiser is invoked, with or without min_snr_gamma.
C17_TargetByPredictionType ==
    tf_result # None =>
        /\ EffectivePredictionType = "epsilon" =>
               /\ tf_result.status = "returned"
               /\ tf_result.target = SampledNoise(tf_input)
        /\ EffectivePredictionType = "v_prediction" =>
               /\ tf_result.status = "returned"
               /\ tf_result.target =
                      Tensor("get_velocity", <<Latents(tf_input), SampledNoise(tf_input),
                                               SampledTimesteps(tf_input)>>)
        /\ EffectivePredictionType \notin {"epsilon", "v_prediction"} =>
               /\ tf_result.status = "raised"
               /\ tf_result.error = "unknown_prediction_type"
               /\ \A i \in 1..Len(tf_calls) : tf_calls[i] # "unet"

\* An unknown type configured over an "epsilon" scheduler, with min_snr_gamma
\* set, has raised.
C17_Witness ==
    /\ tf_result # None
    /\ tf_input.prediction_type = <<"sample">>
    /\ tf_input.scheduler_prediction_type = "epsilon"
    /\ tf_input.min_snr_gamma # None
    /\ tf_result.status = "raised"

NonMainWorkers == {w \in Workers : ~IsMainProcess(w)}

\* The workers that have written into a cache directory.
CacheWriters == {f.writer : f \in cache_files}

\* The caches of a worker that the configuration enables are fully written.
CachesComplete(w) ==
    \A kind \in CacheKinds : CachingEnabled(kind) => CacheComplete(TempDir(w, kind))

\* C12: with two or more workers, checkpoint save and validation are done by
\* the main process only, between two barriers: while one is in progress no
\* worker has started the next batch, no other worker ever performs one, and
\* no two are in progress at once.
C12_SideEffectsByMainBetweenBarriers ==
    /\ \A i \in 1..Len(side_effects) : side_effects[i].worker \notin NonMainWorkers
    /\ \A a \in active_writers : a.worker \notin NonMainWorkers
    /\ Cardinality(active_writers) <= 1
    /\ \A a \in active_writers :
           \A w \in Workers :
               /\ worker[w].batches = worker[a.worker].global_step
               /\ worker[w].global_step = worker[a.worker].global_step
               /\ worker[w].pc[1] \in {"save_pre", "save", "validate_pre", "validate"}

\* The main process is saving a checkpoint while another worker waits at the
\* barrier that follows the save.
C12_Witness ==
    /\ \E a \in active_writers : a.kind = "save"
    /\ \E w \in NonMainWorkers : worker[w].pc = <<"save", "wait">>

C14_LoaderReadsMainCache ==
    \A w \in Workers : \A kind \in CacheKinds :
        (worker[w].loader # None /\ CachingEnabled(kind)) =>
            /\ \E m \in Workers : IsMainProcess(m) /\ worker[w].loader[kind] = TempDir(m, kind)
            /\ \A id \in SampleIds : id \in Populated(worker[w].loader[kind])

\* C15: once the main process has failed while populating a cache, no other
\* worker builds a data loader, starts a batch, reads the cache or performs
\* an optimizer update (it is still in the cache preparation, or has died
\* there itself), and the population is not taken up again.
C15_BlockedAfterMainFailure ==
    \A m \in Workers :
        (IsMainProcess(m) /\ worker[m].err = "populate_failure") =>
            /\ worker[m].pc[1] = "failed"
            /\ ~CacheComplete(TempDir(m, worker[m].pc[2]))
            /\ \A w \in NonMainWorkers :
                   /\ worker[w].loader = None
                   /\ worker[w].batches = 0
                   /\ worker[w].global_step = 0
                   /\ \A r \in cache_reads : r.worker # w
                   /\ worker[w].pc[1] \in CacheKinds \cup {"failed"}

\* The main process has failed in the middle of the VAE population and
\* another worker waits at the barrier that follows it.
C15_Witness ==
    /\ \E m \in Workers :
           /\ IsMainProcess(m)
           /\ worker[m].pc = <<"failed", "vae">>
           /\ Populated(TempDir(m, "vae")) # {}
    /\ \E w \in NonMainWorkers : worker[w].pc = <<"vae", "wait">>

\* ---------------------------------------------------------------------------
\* Properties of the output precomputation jobs.
\* ---------------------------------------------------------------------------
\* The number of cache.save() calls made for an id.
WriteCount(id) == Cardinality({i \in 1..Len(pre_writes) : pre_writes[i] = id})

\* C20: for both jobs and both data loader variants, the job's loader yields
\* the ids in dataset order in consecutive batches (no aspect-ratio
\* bucketing), and the finished job has written every id exactly once.
C20_PrecomputeSequential ==
    /\ pre_batches # None =>
           pre_batches = SequentialBatches(pre_input, pre_input.batch_size)
    /\ pre_pc = "done" =>
           \A id \in 1..Len(pre_input.bucket_of) : WriteCount(id) = 1

\* ---------------------------------------------------------------------------
\* Frame and caching properties of train_forward().
\* ---------------------------------------------------------------------------
\* C23: train_forward() leaves the noise scheduler as it found it: after the
\* call the scheduler's prediction type is the one it had before the call,
\* also when config.prediction_type names a different one.
C23_SchedulerUnchanged ==
    tf_result # None => tf_scheduler = tf_input.scheduler_prediction_type

\* The collaborator has been invoked by the call.
Invoked(name) == \E i \in 1..Len(tf_calls) : tf_calls[i] = name

\* C24: the VAE is invoked exactly when the batch has no vae_output, the
\* tokenizer and the text encoder exactly when it has no text_encoder_output;
\* a fully cached batch has neither `image` nor `caption` read; and whatever
\* is cached, a call that returns returns a single scalar.
C24_EncodersOnlyWhenUncached ==
    tf_result # None =>
        /\ Invoked("vae.encode") <=> ~tf_input.has_vae_output
        /\ Invoked("tokenize_captions") <=> ~tf_input.has_text_encoder_output
        /\ Invoked("text_encoder") <=> ~tf_input.has_text_encoder_output
        /\ (tf_input.has_vae_output /\ tf_input.has_text_encoder_output) =>
               tf_result.reads \cap {"image", "caption"} = {}
        /\ tf_result.status = "returned" => tf_result.loss_shape = << >>

\* A fully cached batch has been turned into a loss.
C24_Witness ==
    /\ tf_result # None
    /\ tf_result.status = "returned"
    /\ tf_input.has_vae_output
    /\ tf_input.has_text_encoder_output
    /\ ~Invoked("vae.encode")
    /\ Invoked("unet")

\* ---------------------------------------------------------------------------
\* Properties of the epoch counter and of the checkpoint tags.
\* ---------------------------------------------------------------------------
\* The loop has been entered.
InLoop == pc \in {"epoch", "batch", "epoch_end", "done"}

\* C25: at every sync point and at termination completed_epochs is the number
\* of epochs whose data loader was exhausted,
\* floor(global_step / ceil(batches per epoch / gradient_accumulation_steps)).
C25_CompletedEpochsIsFloor ==
    InLoop =>
        completed_epochs =
            global_step \div Ceil(len_data_loader, config.gradient_accumulation_steps)

\* Training has terminated in an epoch that was cut short, after a completed
\* one and with an incomplete accumulation group at the end of the loader.
C25_Witness ==
    /\ pc = "done"
    /\ completed_epochs > 0
    /\ ~LoaderExhausted
    /\ len_data_loader % config.gradient_accumulation_steps # 0

\* C27: when training has terminated, a checkpoint tagged with the final
\* global_step has been saved, whatever the save cadence.
C27_FinalStepSaved ==
    pc = "done" => \E i \in 1..Len(saves) : saves[i].step = global_step

\* C28: the step tags of the successive checkpoint saves of a run are
\* strictly increasing, so no two saves share an (epoch, step) tag or a path.
C28_SaveTagsIncrease ==
    \A i, j \in 1..Len(saves) :
        i < j => /\ saves[i].step < saves[j].step
                 /\ saves[i] # saves[j]
                 /\ GetPath(saves[i]) # GetPath(saves[j])

\* Three saves of one run, the last one after an epoch that was cut short.
C28_Witness ==
    /\ pc = "done"
    /\ Len(saves) >= 3
    /\ config.save_every_n_epochs # None
    /\ ~LoaderExhausted

\* ---------------------------------------------------------------------------
\* Properties of the loop body: optimizer effects and the logged loss.
\* ---------------------------------------------------------------------------
\* C22: clipping, the optimizer update, the scheduler step and the gradient
\* zeroing take effect on sync-boundary batches only: their counts equal
\* global_step after any prefix of the run (the clipping count only if
\* max_grad_norm is set, otherwise it stays zero), and a batch that is not a
\* sync boundary changes none of them.
C22_EffectsOnlyAtSync ==
    /\ [](/\ optimizer_updates = global_step
          /\ step_effects.lr_scheduler_step = global_step
          /\ step_effects.zero_grad = global_step
          /\ step_effects.clip_grad_norm =
                 IF config.max_grad_norm # None THEN global_step ELSE 0)
    /\ [][(batches_processed' = batches_processed + 1 /\ ~IsSyncBoundary(data_batch_idx)) =>
              /\ optimizer_updates' = optimizer_updates
              /\ step_effects' = step_effects]_vars

\* With max_grad_norm set, gradients have been clipped and at least one batch
\* was not a sync boundary.
C22_Witness ==
    /\ config.max_grad_norm # None
    /\ step_effects.clip_grad_norm > 0
    /\ batches_processed > global_step

RECURSIVE SumOf(_)

\* The sum of a sequence of losses.
SumOf(losses) ==
    IF losses = << >> THEN 0 ELSE losses[1] + SumOf(SubSeq(losses, 2, Len(losses)))

\* C26: the train_loss of every log record is the mean of the losses of the
\* batches processed since the previous sync point, also for the shorter
\* last group of an epoch; the accumulator is zero just after a sync and at
\* the start of an epoch.
C26_TrainLossIsGroupMean ==
    /\ loss_log # None =>
           loss_log.num * Len(loss_log.batches) = SumOf(loss_log.batches) * loss_log.den
    /\ (pc \in {"batch", "epoch_end"} /\ sync_gradients) => train_loss = 0
    /\ (pc = "batch" /\ data_batch_idx = 0) => train_loss = 0

\* ---------------------------------------------------------------------------
\* Barrier sequences and termination of the runs with several workers.
\* ---------------------------------------------------------------------------
\* Sequence a is an initial part of sequence b.
IsPrefix(a, b) == Len(a) <= Len(b) /\ SubSeq(b, 1, Len(a)) = a

SomeWorkerFailed == \E w \in Workers : worker[w].pc[1] = "failed"

AllWorkersDone == \A w \in Workers : worker[w].pc[1] = "done"

\* C29: all workers make the same sequence of collective calls (after each
\* cache population, around each save, around each validation), and a run in
\* which no worker fails ends with every worker terminated: nobody waits
\* forever at a barrier.
C29_SameBarriersAllTerminate ==
    /\ [](\A v, w \in Workers :
              \/ IsPrefix(worker[v].barriers, worker[w].barriers)
              \/ IsPrefix(worker[w].barriers, worker[v].barriers))
    /\ <>(SomeWorkerFailed \/ AllWorkersDone)

\* Every worker has terminated after a cache population, a save and a
\* validation, all with the same barrier calls.
C29_Witness ==
    /\ AllWorkersDone
    /\ CachingEnabled("text_encoder")
    /\ dist_config.has_validation_prompts
    /\ \A v, w \in Workers : worker[v].barriers = worker[w].barriers
    /\ \E w \in Workers : \E i \in 1..Len(worker[w].barriers) :
           worker[w].barriers[i] = "validate"

\* The classes of the transforms of a returned data loader, in chain order.
TiChainClasses ==
    [i \in 1..Len(ti_result.data_loader[1].transforms) |->
        ti_result.data_loader[1].transforms[i].class]

CaptionTransformClasses == {"TemplateCaptionTransform", "CaptionPrefixTransform"}

ImageRelatedClasses == {"SDImageTransform", "LoadCacheTransform", "DropFieldTransform"}

\* C21: in the transform chain of build_textual_inversion_sd_dataloader the
\* caption transform is first, the caption shuffle (if a delimiter is
\* configured) is second, and both precede every image-related transform; with
\* a VAE cache directory the chain holds the cache load directly followed by
\* the drop of 'image' and no image transform, without one it holds the image
\* transform and no cache load or drop; samples lack 'image' exactly when a
\* VAE cache directory is supplied.
C21_TransformChainOrder ==
    (ti_result # None /\ ti_result.status = "returned") =>
        LET classes == TiChainClasses
            chain == ti_result.data_loader[1].transforms
            cached == ti_input.vae_output_cache_dir # None
            shuffled == ti_input.shuffle_caption_delimiter # None
            At(class) == {i \in 1..Len(classes) : classes[i] = class}
        IN /\ classes[1] \in CaptionTransformClasses
           /\ \A i \in 2..Len(classes) : classes[i] \notin CaptionTransformClasses
           /\ At("ShuffleCaptionTransform") = (IF shuffled THEN {2} ELSE {})
           /\ \A i, j \in 1..Len(classes) :
                  (classes[i] \notin ImageRelatedClasses /\ classes[j] \in ImageRelatedClasses)
                      => i < j
           /\ cached =>
                  /\ At("SDImageTransform") = {}
                  /\ \E i \in 1..(Len(classes) - 1) :
                         /\ At("LoadCacheTransform") = {i}
                         /\ At("DropFieldTransform") = {i + 1}
                         /\ chain[i].arg = ti_input.vae_output_cache_dir
                         /\ chain[i + 1].arg = Some("image")
           /\ ~cached =>
                  /\ Cardinality(At("SDImageTransform")) = 1
                  /\ At("LoadCacheTransform") = {}
                  /\ At("DropFieldTransform") = {}
           /\ ("image" \notin ti_result.data_loader[1].sample_fields) <=> cached

\* A data loader was built on a VAE cache with caption shuffling: its chain
\* has four transforms and its samples carry the cached output, not the image.
C21_Witness ==
    /\ ti_result # None
    /\ ti_result.status = "returned"
    /\ ti_input.vae_output_cache_dir # None
    /\ ti_input.shuffle_caption_delimiter # None
    /\ TiChainClasses[Len(TiChainClasses)] = "DropFieldTransform"
    /\ "vae_output" \in ti_result.data_loader[1].sample_fields
    /\ "image" \notin ti_result.data_loader[1].sample_fields

\* The caption option named by a config with exactly one option set.
TiChosenCaptionTransform ==
    IF ti_input.caption_templates # None
    THEN Transform("TemplateCaptionTransform", ti_input.caption_templates)
    ELSE IF ti_input.caption_preset # None
         THEN Transform("TemplateCaptionTransform",
                        Some(IF ti_input.caption_preset = Some("object")
                             THEN "object_templates"
                             ELSE "style_templates"))
         ELSE Transform("CaptionPrefixTransform", Some("placeholder_token "))

\* C30: build_textual_inversion_sd_dataloader returns a data loader, led by
\* the caption transform of the one option set, if and only if exactly one of
\* caption_templates (non-None), caption_preset (non-None) and
\* apply_caption_prefix (true) is set, the preset (if set) is a recognized
\* one and the dataset config type is an expected one; in every other case it
\* raises a ValueError and returns no data loader.
C30_ExactlyOneCaptionOption ==
    ti_result # None =>
        LET set == {o \in {"caption_templates", "caption_preset", "apply_caption_prefix"} :
                        IF o = "apply_caption_prefix"
                        THEN ti_input.apply_caption_prefix
                        ELSE ti_input[o] # None}
            recognized == \/ ti_input.caption_preset = None
                          \/ ti_input.caption_preset[1] \in CaptionPresets
            expected == ti_input.dataset_type \in DatasetConfigTypes
        IN /\ ti_result.status = "returned"
                  <=> (Cardinality(set) = 1 /\ recognized /\ expected)
           /\ ti_result.status = "returned" =>
                  /\ ti_result.data_loader # None
                  /\ ti_result.data_loader[1].transforms[1] = TiChosenCaptionTransform
           /\ ti_result.status # "returned" =>
                  /\ ti_result.status = "raised"
                  /\ ti_result.exception = "ValueError"
                  /\ ti_result.data_loader = None

\* A call with two caption options set on an expected dataset type was
\* rejected.
C30_Witness ==
    /\ ti_result # None
    /\ ti_result.status = "raised"
    /\ ti_input.dataset_type \in DatasetConfigTypes
    /\ ti_input.caption_templates # None
    /\ ti_input.apply_caption_prefix
    /\ ti_input.caption_preset = None

====
